---- MODULE Spec2Model ----
(***************************************************************************)
(* Goldilocks field arithmetic, modular inverse, Poseidon permutation      *)
(* driver and lane indexing of src/cuda/def.cuh.                           *)
(*                                                                         *)
(* 64-bit and 128-bit machine words are carried as little-endian sequences *)
(* of 16-bit limbs without leading zero limbs (<<>> is 0), so that every   *)
(* intermediate value of the evaluation stays a small integer.  A uintN_t  *)
(* operation of the source is the exact operation followed by Wrap(_, N).  *)
(***************************************************************************)
EXTENDS Integers, Sequences, FiniteSets, TLC

Base == 256 * 256

VARIABLES
    lhs, rhs,   \* operands of one field operation (64-bit stored values)
    op,         \* the operation applied to them, "none" before it
    out,        \* what the operation returned
    inv,        \* the frame of one call of GoldilocksField::inverse
    cfg,        \* what constants.cuh defines: the sizes and the table set
    hash,       \* the frame of one call of hash_n_to_m_no_pad
    perm,       \* the frame of the running call of permute_poseidon
    grid        \* one kernel launch: its shape, its lanes and the jobs they took

fieldVars == <<lhs, rhs, op, out>>
invVars == <<inv>>
poseidonVars == <<cfg, hash, perm>>
gridVars == <<grid>>
vars == <<fieldVars, invVars, poseidonVars, gridVars>>

\* sampling radius around the boundary values of a 64-bit word
Radius == 2
\* sampling radius of the inputs of inverse
InvRadius == 4
\* model stand-in for the range of the int counter of trailing_zeros
IntWrap == 128
\* largest HALF_N_FULL_ROUNDS and N_PARTIAL_ROUNDS of the sampled round counts
MaxHalf == 2
MaxPartial == 2
\* largest number of lanes of a launch whose lanes all run, and of jobs
MaxLanes == 4
MaxJobs == 5
\* the largest exponent passed to inverse_2exp
MaxExp == 100

----------------------------------------------------------------------------
(* Exact arithmetic on naturals (limb sequences).  Carries are resolved by *)
(* look-ahead, so that no operator recurses along the limbs.               *)
(* The({e : x \in {d}}) is "e where x = d": a local of the source bound to *)
(* its value, which is then computed once, whatever the evaluation mode.   *)

The(S) == CHOOSE r \in S : TRUE

Limb(s, i) == IF i >= 1 /\ i <= Len(s) THEN s[i] ELSE 0

Max(x, y) == IF x >= y THEN x ELSE y

\* s without its leading zero limbs
Norm(s) ==
    The({IF \A i \in 1..Len(t) : t[i] = 0 THEN <<>>
         ELSE SubSeq(t, 1, CHOOSE m \in 1..Len(t) :
                               t[m] # 0 /\ \A k \in (m + 1)..Len(t) : t[k] = 0) :
         t \in {s}})

Small(n) == Norm(<<n % Base, n \div Base>>)

CarryIn(a, b, i) ==
    \E j \in 1..(i - 1) :
        /\ Limb(a, j) + Limb(b, j) >= Base
        /\ \A k \in (j + 1)..(i - 1) : Limb(a, k) + Limb(b, k) = Base - 1

Add(x, y) ==
    The({Norm([i \in 1..(Max(Len(a), Len(b)) + 1) |->
                  (Limb(a, i) + Limb(b, i) + (IF CarryIn(a, b, i) THEN 1 ELSE 0)) % Base]) :
         a \in {x}, b \in {y}})

Less(x, y) ==
    The({\E i \in 1..Max(Len(a), Len(b)) :
             /\ Limb(a, i) < Limb(b, i)
             /\ \A k \in (i + 1)..Max(Len(a), Len(b)) : Limb(a, k) = Limb(b, k) :
         a \in {x}, b \in {y}})

Leq(x, y) == ~Less(y, x)

BorrowIn(a, b, i) ==
    \E j \in 1..(i - 1) :
        /\ Limb(a, j) < Limb(b, j)
        /\ \A k \in (j + 1)..(i - 1) : Limb(a, k) = Limb(b, k)

\* x - y for x >= y
Sub(x, y) ==
    The({Norm([i \in 1..Len(a) |->
                  (Limb(a, i) - Limb(b, i) - (IF BorrowIn(a, b, i) THEN 1 ELSE 0) + Base)
                      % Base]) :
         a \in {x}, b \in {y}})

\* product of two limbs as the pair <<low limb, high limb>>
MulLimb(u, v) ==
    LET t  == (u \div 256) * v
        lo == (t % 256) * 256 + (u % 256) * v
    IN  <<lo % Base, (t \div 256) + (lo \div Base)>>

\* x times one limb v
MulRow(x, v) ==
    The({Add([i \in 1..Len(m) |-> m[i][1]], <<0>> \o [i \in 1..Len(m) |-> m[i][2]]) :
         m \in {SubSeq([i \in 1..Len(x) |-> MulLimb(x[i], v)], 1, Len(x))}})

Zeros(n) == [i \in 1..n |-> 0]

RECURSIVE MulFrom(_, _, _)
MulFrom(x, y, j) ==
    IF j > Len(y) THEN <<>>
    ELSE Add(Zeros(j - 1) \o MulRow(x, y[j]), MulFrom(x, y, j + 1))

Mul(x, y) == The({MulFrom(a, b, 1) : a \in {x}, b \in {y}})

\* x * 2^n
Shl(x, n) == Norm(Zeros(n \div 16) \o MulRow(x, 2 ^ (n % 16)))

\* floor(x / 2^n)
Shr(x, n) ==
    The({IF n \div 16 >= Len(a) THEN <<>>
         ELSE Norm([i \in 1..(Len(a) - n \div 16) |->
                       (a[i + n \div 16] \div (2 ^ (n % 16)))
                       + (Limb(a, i + n \div 16 + 1) % (2 ^ (n % 16))) * (2 ^ (16 - (n % 16)))]) :
         a \in {x}})

\* x mod 2^n: the value an n-bit unsigned word keeps
Wrap(x, n) ==
    The({IF Len(a) <= n \div 16 THEN a
         ELSE Norm(SubSeq(a, 1, n \div 16)
                   \o (IF n % 16 = 0 THEN <<>> ELSE <<a[n \div 16 + 1] % (2 ^ (n % 16))>>)) :
         a \in {x}})

IsOdd(x) == Limb(x, 1) % 2 = 1

----------------------------------------------------------------------------
(* Machine words and the field's constants. *)

TwoTo64 == <<0, 0, 0, 0, 1>>
UINT64_MAX == <<65535, 65535, 65535, 65535>>
EPSILON == <<65535, 65535>>
ORDER == <<1, 0, 65535, 65535>>
One == <<1>>
Zero == <<>>

\* reference remainder of x modulo ORDER: 2^64 = ORDER + EPSILON, so
\* hi * 2^64 + lo = hi * ORDER + (hi * EPSILON + lo); fold until below 2^64
RECURSIVE ModP(_)
ModP(x) ==
    The({IF Len(a) <= 4 THEN (IF Leq(ORDER, a) THEN Sub(a, ORDER) ELSE a)
         ELSE ModP(Add(Wrap(a, 64), Mul(Shr(a, 64), EPSILON))) :
         a \in {x}})

Congruent(x, y) == ModP(x) = ModP(y)

\* x - y in a 64-bit unsigned word
WrapSub64(x, y) ==
    The({IF Less(a, b) THEN Sub(Add(a, TwoTo64), b) ELSE Sub(a, b) : a \in {x}, b \in {y}})

\* the returned word and the flag stored through the pointer
overflowing_add(x, y) ==
    The({[value |-> Wrap(Add(a, b), 64), overflow |-> Less(Sub(UINT64_MAX, b), a)] :
         a \in {x}, b \in {y}})

overflowing_sub(x, y) ==
    The({[value |-> WrapSub64(a, b), overflow |-> Less(a, b)] : a \in {x}, b \in {y}})

----------------------------------------------------------------------------
(* GoldilocksField: the stored value is one 64-bit word. *)

\* operator+ with the double-overflow correction left out
op_add_single_correction(a, b) ==
    LET s1 == overflowing_add(a, b)
        s2 == overflowing_add(s1.value, IF s1.overflow THEN EPSILON ELSE Zero)
    IN  [data |-> s2.value, over |-> s1.overflow, double |-> s2.overflow,
         assert_ok |-> s2.overflow => (Less(ORDER, a) /\ Less(ORDER, b)),
         wrapped |-> FALSE]

\* operator+ : data is the returned word; assert_ok is the value of the
\* asserted condition when the double-overflow branch is taken; wrapped says
\* that the branch's "sum += EPSILON" left the 64-bit range
op_add_of(a, b) ==
    The({The({LET last == Add(s2.value, EPSILON)
              IN  [data      |-> IF s2.overflow THEN Wrap(last, 64) ELSE s2.value,
                   over      |-> s1.overflow,
                   double    |-> s2.overflow,
                   assert_ok |-> s2.overflow => (Less(ORDER, a) /\ Less(ORDER, b)),
                   wrapped   |-> s2.overflow /\ Leq(TwoTo64, last)] :
              s2 \in {overflowing_add(s1.value, IF s1.overflow THEN EPSILON ELSE Zero)}}) :
         s1 \in {overflowing_add(a, b)}})

op_add(a, b) ==
    The({op_add_of(fst, snd) : fst \in {a}, snd \in {b}})

\* binary operator- with the double-underflow correction left out
op_sub_single_correction(a, b) ==
    LET d1 == overflowing_sub(a, b)
        d2 == overflowing_sub(d1.value, IF d1.overflow THEN EPSILON ELSE Zero)
    IN  [data |-> d2.value, under |-> d1.overflow, double |-> d2.overflow,
         assert_ok |-> d2.overflow => (Less(a, Sub(EPSILON, One)) /\ Less(ORDER, b)),
         wrapped |-> FALSE]

\* binary operator-
op_sub_of(a, b) ==
    The({The({[data      |-> IF d2.overflow THEN WrapSub64(d2.value, EPSILON)
                             ELSE d2.value,
               under     |-> d1.overflow,
               double    |-> d2.overflow,
               assert_ok |-> d2.overflow =>
                                (Less(a, Sub(EPSILON, One)) /\ Less(ORDER, b)),
               wrapped   |-> d2.overflow /\ Less(d2.value, EPSILON)] :
              d2 \in {overflowing_sub(d1.value, IF d1.overflow THEN EPSILON ELSE Zero)}}) :
         d1 \in {overflowing_sub(a, b)}})

op_sub(a, b) ==
    The({op_sub_of(fst, snd) : fst \in {a}, snd \in {b}})

\* unary operator- : the two's complement of the stored word
op_neg(a) == WrapSub64(Zero, a)

\* reduce128 without the "t0 -= EPSILON" borrow correction
reduce128_no_borrow_fix(x_hi, x_lo) ==
    LET x_hi_hi == Shr(x_hi, 32)
        x_hi_lo == Wrap(x_hi, 32)
        s       == overflowing_sub(x_lo, x_hi_hi)
        t0      == s.value
        t1      == Wrap(Mul(x_hi_lo, EPSILON), 64)
        carry   == Less(Sub(UINT64_MAX, t1), t0)
        sum     == Wrap(Add(t1, t0), 64)
    IN  [data      |-> IF carry THEN Wrap(Add(sum, EPSILON), 64) ELSE sum,
         borrow    |-> s.overflow,
         underflow |-> FALSE,
         carry     |-> carry,
         wrapped   |-> carry /\ Leq(TwoTo64, Add(sum, EPSILON))]

reduce128_of(x_hi, x_lo) ==
    The({The({The({[data      |-> IF carry THEN Wrap(Add(sum, EPSILON), 64) ELSE sum,
                    borrow    |-> s.overflow,
                    underflow |-> s.overflow /\ Less(s.value, EPSILON),
                    carry     |-> carry,
                    wrapped   |-> carry /\ Leq(TwoTo64, Add(sum, EPSILON))] :
                   carry \in {Less(Sub(UINT64_MAX, t1), t0)},
                   sum \in {Wrap(Add(t1, t0), 64)}}) :
              t0 \in {IF s.overflow THEN WrapSub64(s.value, EPSILON) ELSE s.value},
              t1 \in {Wrap(Mul(x_hi_lo, EPSILON), 64)}}) :
         x_hi_lo \in {Wrap(x_hi, 32)},
         s \in {overflowing_sub(x_lo, Shr(x_hi, 32))}})

reduce128(x_hi, x_lo) ==
    The({reduce128_of(fst, snd) : fst \in {x_hi}, snd \in {x_lo}})

\* operator* with the carry out of the middle column not added to high
op_mul_drop_carry(a, b) ==
    LET a_low        == Wrap(a, 32)
        a_high       == Shr(a, 32)
        b_low        == Wrap(b, 32)
        b_high       == Shr(b, 32)
        product_low  == Wrap(Mul(a_low, b_low), 64)
        product_mid1 == Wrap(Mul(a_low, b_high), 64)
        product_mid2 == Wrap(Mul(a_high, b_low), 64)
        product_high == Wrap(Mul(a_high, b_high), 64)
        carry == Wrap(Add(Add(Shr(product_low, 32), Wrap(product_mid1, 32)),
                          Wrap(product_mid2, 32)), 64)
        high  == Wrap(Add(Add(product_high, Shr(product_mid1, 32)),
                          Shr(product_mid2, 32)), 64)
        low   == Wrap(Add(Wrap(Shl(carry, 32), 64), Wrap(product_low, 32)), 64)
    IN  [data |-> reduce128(high, low).data, high |-> high, low |-> low,
         carry |-> carry, fits |-> TRUE]

\* operator* : the four 32x32 partial products, then reduce128(high, low);
\* fits says that neither the sum "carry" nor the sum "high" left 64 bits
op_mul_of(a, b) ==
    The({The({The({The({[data  |-> reduce128(high, low).data,
                         high  |-> high,
                         low   |-> low,
                         carry |-> carry,
                         fits  |-> Less(carry_sum, TwoTo64) /\ Less(high_sum, TwoTo64)] :
                        high \in {Wrap(high_sum, 64)},
                        low \in {Wrap(Add(Wrap(Shl(carry, 32), 64),
                                          Wrap(product_low, 32)), 64)}}) :
                   carry \in {Wrap(carry_sum, 64)},
                   high_sum \in {Add(Add(Add(product_high, Shr(product_mid1, 32)),
                                         Shr(product_mid2, 32)),
                                     Shr(Wrap(carry_sum, 64), 32))}}) :
              carry_sum \in {Add(Add(Shr(product_low, 32), Wrap(product_mid1, 32)),
                                 Wrap(product_mid2, 32))}}) :
         product_low \in {Wrap(Mul(Wrap(a, 32), Wrap(b, 32)), 64)},
         product_mid1 \in {Wrap(Mul(Wrap(a, 32), Shr(b, 32)), 64)},
         product_mid2 \in {Wrap(Mul(Shr(a, 32), Wrap(b, 32)), 64)},
         product_high \in {Wrap(Mul(Shr(a, 32), Shr(b, 32)), 64)}})

op_mul(a, b) ==
    The({op_mul_of(fst, snd) : fst \in {a}, snd \in {b}})

\* operator==: the stored values are compared
op_eq(a, b) == b = a

field_add(a, b) == op_add(a, b).data
field_mul(a, b) == op_mul(a, b).data

TWO_ADICITY == 32

\* inverse_2exp: ORDER - (ORDER - 1) / 2^exp, times 2^-32 while exp > 32
RECURSIVE inverse_2exp_loop(_, _)
inverse_2exp_loop_of(res, e) ==
    IF e > TWO_ADICITY
    THEN inverse_2exp_loop(
             field_mul(res, Sub(ORDER, Shr(Sub(ORDER, One), TWO_ADICITY))),
             e - TWO_ADICITY)
    ELSE field_mul(res, Sub(ORDER, Shr(Sub(ORDER, One), e)))

inverse_2exp_loop(res, e) ==
    The({inverse_2exp_loop_of(fst, snd) : fst \in {res}, snd \in {e}})

inverse_2exp(exp) ==
    IF exp > TWO_ADICITY
    THEN inverse_2exp_loop(Sub(ORDER, Shr(Sub(ORDER, One), TWO_ADICITY)),
                           exp - TWO_ADICITY)
    ELSE Sub(ORDER, Shr(Sub(ORDER, One), exp))

----------------------------------------------------------------------------
(* i128: exact integers as sign and magnitude; InI128 is the type's range. *)

SInt(neg, mag) == [neg |-> neg /\ mag # <<>>, mag |-> mag]
SNeg(x) == SInt(~x.neg, x.mag)
SAdd(x, y) ==
    IF x.neg = y.neg THEN SInt(x.neg, Add(x.mag, y.mag))
    ELSE IF Less(x.mag, y.mag) THEN SInt(y.neg, Sub(y.mag, x.mag))
    ELSE SInt(x.neg, Sub(x.mag, y.mag))
SSub(x, y) == SAdd(x, SNeg(y))
SShl(x, n) == SInt(x.neg, Shl(x.mag, n))
TwoTo127 == Shl(One, 127)
InI128(x) == Less(x.mag, TwoTo127) \/ (x.neg /\ x.mag = TwoTo127)
\* u64(c): the low 64 bits of the two's complement pattern
SToU64(x) == IF x.neg THEN WrapSub64(Zero, Wrap(x.mag, 64)) ELSE Wrap(x.mag, 64)

----------------------------------------------------------------------------
(* PoseidonHasher.  constants.cuh is not part of the sources: the sizes it *)
(* defines are fields of the variable cfg, and its tables are given by the *)
(* table set cfg.tables.  The state has 12 elements.                       *)

SPONGE_WIDTH == 12
WIDTH == SPONGE_WIDTH

\* an array as stored in memory: every element is computed once
Stored(a) == SubSeq(a, 1, SPONGE_WIDTH)

\* MDS_MATRIX_CIRC and MDS_MATRIX_DIAG of plonky2's Poseidon over this field
Plonky2Circ == <<17, 15, 41, 16, 2, 28, 13, 13, 39, 18, 34, 20>>
Plonky2Diag == <<8, 0, 0, 0, 0, 0, 0, 0, 0, 0, 0, 0>>

\* a 64-bit table entry of table set t: entry n of the table numbered salt
TableWord(t, salt, n) ==
    Wrap(Mul(<<31765, 31161, 14263, 40503>>, Small(1 + t + 8 * salt + 64 * n)), 64)

\* table set 1 is plonky2's, table set 2 has entries below 64 and 16; in table
\* sets 3 and 4 the entries are large: those of MDS_MATRIX_CIRC add up to
\* 2^32 - 15 and MDS_MATRIX_DIAG[0] is 15 (set 3) or 16 (set 4)
MDS_MATRIX_CIRC(t, i) ==
    IF t = 1 THEN Small(Plonky2Circ[i + 1])
    ELSE IF t = 2 THEN Wrap(TableWord(t, 1, i), 6)
    ELSE IF i = 0 THEN Sub(Shl(One, 32), Small(11 * 2^20 + 15)) ELSE Small(2^20)
MDS_MATRIX_DIAG(t, i) ==
    IF t = 1 THEN Small(Plonky2Diag[i + 1])
    ELSE IF t = 2 THEN Wrap(TableWord(t, 2, i), 4)
    ELSE Small(IF i = 0 THEN 12 + t ELSE i)
ALL_ROUND_CONSTANTS(t, n) == TableWord(t, 3, n)
FAST_PARTIAL_FIRST_ROUND_CONSTANT(t, i) == TableWord(t, 4, i)
FAST_PARTIAL_ROUND_CONSTANTS(t, i) == TableWord(t, 5, i)
FAST_PARTIAL_ROUND_INITIAL_MATRIX(t, r, c) == TableWord(t, 6, 11 * r + c)
FAST_PARTIAL_ROUND_W_HATS(t, r, i) == TableWord(t, 7, 11 * r + i)
FAST_PARTIAL_ROUND_VS(t, r, i) == TableWord(t, 0, 11 * r + i)

from_canonical_u64(n) == n
to_noncanonical_u64(x) == x
from_noncanonical_u128(n) ==
    The({reduce128(Shr(u, 64), Wrap(u, 64)).data : u \in {n}})
from_noncanonical_u96(n_lo, n_hi) ==
    The({from_noncanonical_u128(n) : n \in {Wrap(Add(Shl(n_hi, 64), n_lo), 128)}})
square(x) == field_mul(x, x)
multiply_accumulate(self, x, y) ==
    The({field_add(self, xy) : xy \in {field_mul(x, y)}})
add_canonical_u64(self, r) == field_add(self, from_canonical_u64(r))

\* add_u160_u128: the accumulator is the pair (first: u128, second: u32)
add_u160_u128(pa, y) ==
    The({[first  |-> Wrap(Add(pa.first, y), 128),
          second |-> Wrap(Add(pa.second, IF over THEN One ELSE Zero), 32)] :
         over \in {Less(Sub(Sub(Shl(One, 128), One), y), pa.first)}})

reduce_u160(pa) ==
    The({The({The({from_noncanonical_u128(reduced128) :
                   reduced128 \in {Wrap(Add(Shl(reduced_hi, 64), n_lo_lo), 128)}}) :
              reduced_hi \in {to_noncanonical_u64(
                                 from_noncanonical_u96(n_lo_hi, pa.second))}}) :
         n_lo_hi \in {Wrap(Shr(pa.first, 64), 64)},
         n_lo_lo \in {Wrap(pa.first, 64)}})

constant_layer(state, t, round_ctr) ==
    Stored([i \in 1..12 |->
               IF i - 1 < WIDTH
               THEN add_canonical_u64(state[i],
                                      ALL_ROUND_CONSTANTS(t, (i - 1) + WIDTH * round_ctr))
               ELSE state[i]])

\* the indices at which constant_layer reads ALL_ROUND_CONSTANTS
constant_layer_reads(round_ctr) == {i + WIDTH * round_ctr : i \in 0..(WIDTH - 1)}

\* x |--> x^7
sbox_monomial(x) ==
    The({The({field_mul(x3, x4) : x4 \in {square(x2)}, x3 \in {field_mul(x, x2)}}) :
         x2 \in {square(x)}})

sbox_layer(state) ==
    Stored([i \in 1..12 |-> IF i - 1 < WIDTH THEN sbox_monomial(state[i]) ELSE state[i]])

\* mds_row_shf: iterations lo..hi of its loop, in their order, res being the
\* sum before them (the range is halved to keep the evaluation shallow)
RECURSIVE mds_row_loop(_, _, _, _, _, _)
mds_row_loop(r, v, t, lo, hi, res) ==
    IF lo < hi
    THEN The({mds_row_loop(r, v, t, (lo + hi) \div 2 + 1, hi, first) :
              first \in {mds_row_loop(r, v, t, lo, (lo + hi) \div 2, res)}})
    ELSE IF lo < WIDTH
         THEN Wrap(Add(res, Mul(v[((lo + r) % WIDTH) + 1], MDS_MATRIX_CIRC(t, lo))), 128)
         ELSE res

mds_row_shf(r, v, t) ==
    The({Wrap(Add(res, Mul(v[r + 1], MDS_MATRIX_DIAG(t, r))), 128) :
         res \in {mds_row_loop(r, v, t, 0, 11, Zero)}})

\* mds_layer with sum_hi one bit short
mds_layer_narrow_sum_hi(state, t) ==
    The({Stored([r \in 1..12 |->
                    IF r - 1 < WIDTH
                    THEN The({from_noncanonical_u96(Wrap(sum, 64), Wrap(Shr(sum, 64), 31)) :
                              sum \in {mds_row_shf(r - 1, _state, t)}})
                    ELSE state[r]]) :
         _state \in {Stored([r \in 1..SPONGE_WIDTH |-> to_noncanonical_u64(state[r])])}})

mds_layer(state, t) ==
    The({Stored([r \in 1..12 |->
                    IF r - 1 < WIDTH
                    THEN The({from_noncanonical_u96(Wrap(sum, 64), Wrap(Shr(sum, 64), 32)) :
                              sum \in {mds_row_shf(r - 1, _state, t)}})
                    ELSE state[r]]) :
         _state \in {Stored([r \in 1..SPONGE_WIDTH |-> to_noncanonical_u64(state[r])])}})

partial_first_constant_layer(state, t) ==
    Stored([i \in 1..12 |->
               IF i - 1 < WIDTH
               THEN field_add(state[i],
                              from_canonical_u64(FAST_PARTIAL_FIRST_ROUND_CONSTANT(t, i - 1)))
               ELSE state[i]])

\* mds_partial_layer_init: what rows lo..hi of its outer loop, in their
\* order, add to result[c], acc being result[c] before them
RECURSIVE partial_init_loop(_, _, _, _, _, _)
partial_init_loop(state, t, c, lo, hi, acc) ==
    IF lo < hi
    THEN The({partial_init_loop(state, t, c, (lo + hi) \div 2 + 1, hi, first) :
              first \in {partial_init_loop(state, t, c, lo, (lo + hi) \div 2, acc)}})
    ELSE IF lo < WIDTH /\ c < WIDTH
         THEN The({field_add(acc, state_r_t) :
                   state_r_t \in {field_mul(state[lo + 1],
                                      from_canonical_u64(
                                          FAST_PARTIAL_ROUND_INITIAL_MATRIX(t, lo - 1, c - 1)))}})
         ELSE acc

mds_partial_layer_init(state, t) ==
    Stored([i \in 1..WIDTH |->
               IF i = 1 THEN state[1] ELSE partial_init_loop(state, t, i - 1, 1, 11, Zero)])

\* mds_partial_layer_fast: iterations lo..hi of its first loop, in their
\* order, d_sum being the accumulator before them
RECURSIVE d_sum_loop(_, _, _, _, _, _)
d_sum_loop(state, t, r, lo, hi, d_sum) ==
    IF lo < hi
    THEN The({d_sum_loop(state, t, r, (lo + hi) \div 2 + 1, hi, first) :
              first \in {d_sum_loop(state, t, r, lo, (lo + hi) \div 2, d_sum)}})
    ELSE IF lo < WIDTH
         THEN The({add_u160_u128(before, si_t) :
                   before \in {d_sum},
                   si_t \in {Wrap(Mul(to_noncanonical_u64(state[lo + 1]),
                                      FAST_PARTIAL_ROUND_W_HATS(t, r, lo - 1)), 128)}})
         ELSE d_sum

mds_partial_layer_fast(state, t, r) ==
    The({The({Stored([i \in 1..12 |->
                         IF i = 1 THEN d
                         ELSE multiply_accumulate(
                                  state[i], state[1],
                                  from_canonical_u64(FAST_PARTIAL_ROUND_VS(t, r, i - 2)))]) :
              d \in {reduce_u160(d_sum)}}) :
         d_sum \in {The({add_u160_u128(looped, s0_mds0to0) :
                         looped \in {d_sum_loop(state, t, r, 1, 11,
                                                [first |-> Zero, second |-> Zero])},
                         s0_mds0to0 \in {Wrap(Mul(to_noncanonical_u64(state[1]),
                                                  Wrap(Add(MDS_MATRIX_CIRC(t, 0),
                                                           MDS_MATRIX_DIAG(t, 0)), 64)),
                                              128)}})}})

\* one iteration of the loop of full_rounds, without the counter
full_round(state, t, round_ctr) ==
    The({The({mds_layer(sboxed, t) : sboxed \in {sbox_layer(added)}}) :
         added \in {constant_layer(state, t, round_ctr)}})

\* partial_rounds before its loop
partial_rounds_begin(state, t) ==
    The({mds_partial_layer_init(added, t) :
         added \in {partial_first_constant_layer(state, t)}})

\* one iteration of the loop of partial_rounds
partial_round(state, t, i) ==
    The({The({mds_partial_layer_fast(sboxed, t, i) :
              sboxed \in {Stored([state EXCEPT ![1] = s0])}}) :
         s0 \in {add_canonical_u64(sbox_monomial(state[1]),
                                   FAST_PARTIAL_ROUND_CONSTANTS(t, i))}})

\* full_rounds: the iterations from r on; fr is the state and round_ctr
RECURSIVE full_rounds(_, _, _)
full_rounds(fr, c, r) ==
    IF r < c.HALF_N_FULL_ROUNDS
    THEN The({full_rounds(next, c, r + 1) :
              next \in {[state |-> full_round(fr.state, c.tables, fr.round_ctr),
                         round_ctr |-> fr.round_ctr + 1]}})
    ELSE fr

\* the loop of partial_rounds: the iterations from i on
RECURSIVE partial_rounds_loop(_, _, _)
partial_rounds_loop(state, c, i) ==
    IF i < c.N_PARTIAL_ROUNDS
    THEN The({partial_rounds_loop(next, c, i + 1) :
              next \in {partial_round(state, c.tables, i)}})
    ELSE state

partial_rounds(fr, c) ==
    The({[state |-> partial_rounds_loop(begun, c, 0),
          round_ctr |-> fr.round_ctr + c.N_PARTIAL_ROUNDS] :
         begun \in {partial_rounds_begin(fr.state, c.tables)}})

\* permute_poseidon: the state it leaves, and whether its assertion holds
permute_poseidon(state, c) ==
    The({The({The({[state |-> third.state, assert_ok |-> third.round_ctr = c.N_ROUNDS] :
                   third \in {full_rounds(second, c, 0)}}) :
              second \in {partial_rounds(first, c)}}) :
         first \in {full_rounds([state |-> state, round_ctr |-> 0], c, 0)}})

\* the loop of hash_n_to_m_no_pad from i on; input is the memory at the
\* pointer, h the local array and whether no assertion has failed
RECURSIVE hash_loop(_, _, _, _)
hash_loop(input, c, h, i) ==
    IF i < 4 /\ h.assert_ok
    THEN The({hash_loop(input, c, permuted, i + c.SPONGE_RATE) :
              permuted \in {permute_poseidon(
                               Stored([j \in 1..SPONGE_WIDTH |->
                                          IF j - 1 < c.SPONGE_RATE
                                          THEN input[i * c.SPONGE_RATE + j]
                                          ELSE h.state[j]]), c)}})
    ELSE h

\* hash_n_to_m_no_pad: the HashOut it returns
hash_n_to_m_no_pad(input, c) ==
    The({[elements |-> SubSeq(h.state, 1, 4), assert_ok |-> h.assert_ok] :
         h \in {hash_loop(input, c, [state |-> Stored([j \in 1..SPONGE_WIDTH |-> Zero]),
                                     assert_ok |-> TRUE], 0)}})

----------------------------------------------------------------------------
(* Inputs: 64-bit words around the places where the arithmetic changes     *)
(* branch (0 and 2^64, EPSILON, ORDER, 2^63) and one word of mixed limbs.  *)

Anchors == {Zero, EPSILON, ORDER, <<0, 0, 0, 32768>>, <<52719, 35243, 17767, 291>>}

Near(x, r) == {Wrap(Add(x, Small(e)), 64) : e \in 0..r}
              \cup {WrapSub64(x, Small(e)) : e \in 1..r}

Words == UNION {Near(x, Radius) : x \in Anchors}
\* 0x8329C05B09E80319 and 0x450EB763A7B563E5: inputs on which inverse leaves
\* its iterations with c far from [0, p)
FarWords == {<<793, 2536, 49243, 33577>>, <<25573, 42933, 46947, 17678>>}

InvWords == UNION {Near(x, InvRadius) : x \in Anchors} \cup FarWords

SZero == SInt(FALSE, Zero)
SOne == SInt(FALSE, One)

InvIdle == [a |-> Zero, pc |-> "idle", f |-> Zero, g |-> Zero, c |-> SZero, d |-> SZero,
            k |-> 0, n |-> Zero, count |-> 0, ret |-> "none", stage |-> 0,
            res |-> Zero, adds |-> 0, subs |-> 0]

FieldIdle == lhs = Zero /\ rhs = Zero /\ op = "idle" /\ out = [data |-> Zero]
InverseIdle == inv = InvIdle

CfgNone == [SPONGE_RATE |-> 0, HALF_N_FULL_ROUNDS |-> 0, N_PARTIAL_ROUNDS |-> 0,
            N_ROUNDS |-> 0, tables |-> 0]

\* GoldilocksField state[SPONGE_WIDTH] = {0}
ZeroState == Stored([i \in 1..SPONGE_WIDTH |-> Zero])

HashIdle == [pc |-> "idle", input |-> <<>>, state |-> ZeroState, i |-> 0, calls |-> 0,
             reads |-> {}, at_call |-> <<>>, first_out |-> <<>>, ret |-> <<>>]

PermIdle == [pc |-> "idle", round_ctr |-> 0, block |-> 0, r |-> 0, i |-> 0,
             rounds |-> <<>>, consts |-> <<>>]

PoseidonIdle == cfg = CfgNone /\ hash = HashIdle /\ perm = PermIdle

GridIdle == grid = [launch |-> "none"]

----------------------------------------------------------------------------
(* One field operation on a pair of stored values. *)

InitField ==
    /\ lhs \in Words
    /\ rhs \in Words
    /\ op = "none"
    /\ out = [data |-> Zero]
    /\ InverseIdle
    /\ PoseidonIdle
    /\ GridIdle

DoAdd == op = "none" /\ op' = "add" /\ out' = op_add(lhs, rhs)
         /\ UNCHANGED <<lhs, rhs, invVars, poseidonVars, gridVars>>

DoSub == op = "none" /\ op' = "sub" /\ out' = op_sub(lhs, rhs)
         /\ UNCHANGED <<lhs, rhs, invVars, poseidonVars, gridVars>>

\* unary minus takes lhs alone
DoNeg == op = "none" /\ op' = "neg" /\ out' = [data |-> op_neg(lhs)]
         /\ UNCHANGED <<lhs, rhs, invVars, poseidonVars, gridVars>>

DoMul == op = "none" /\ op' = "mul" /\ out' = op_mul(lhs, rhs)
         /\ UNCHANGED <<lhs, rhs, invVars, poseidonVars, gridVars>>

\* reduce128(x_hi = lhs, x_lo = rhs)
DoReduce128 == op = "none" /\ op' = "reduce128" /\ out' = reduce128(lhs, rhs)
               /\ UNCHANGED <<lhs, rhs, invVars, poseidonVars, gridVars>>

\* lhs == rhs
DoEq == op = "none" /\ op' = "eq" /\ out' = [equal |-> op_eq(lhs, rhs)]
        /\ UNCHANGED <<lhs, rhs, invVars, poseidonVars, gridVars>>

\* (lhs + rhs) == from_canonical_u64(0)
DoSumEqZero == op = "none" /\ op' = "sum_eq_zero"
               /\ out' = [equal |-> op_eq(field_add(lhs, rhs), from_canonical_u64(Zero))]
               /\ UNCHANGED <<lhs, rhs, invVars, poseidonVars, gridVars>>

NextField == DoAdd \/ DoSub \/ DoNeg \/ DoMul \/ DoReduce128 \/ DoEq \/ DoSumEqZero

SpecField == InitField /\ [][NextField]_vars

----------------------------------------------------------------------------
(* GoldilocksField::inverse, one step per loop iteration.  inv.pc is the   *)
(* position in the body; trailing_zeros runs as its own loop on (n, count) *)
(* and hands back to the position named by inv.ret.                        *)

InitInverse ==
    /\ FieldIdle
    /\ PoseidonIdle
    /\ GridIdle
    /\ \E a \in InvWords :
          inv = [InvIdle EXCEPT !.a = a, !.pc = "start", !.f = a, !.g = ORDER,
                                !.c = SOne, !.d = SZero]

\* u32 k = trailing_zeros(f): enter the loop
InvBegin ==
    /\ inv.pc = "start"
    /\ inv' = [inv EXCEPT !.pc = "tz", !.ret = "strip", !.n = inv.f, !.count = 0]
    /\ UNCHANGED <<fieldVars, poseidonVars, gridVars>>

\* trailing_zeros: while ((n & 1) == 0) { n >>= 1; count++; }
TrailingZerosStep ==
    /\ inv.pc = "tz"
    /\ ~IsOdd(inv.n)
    /\ inv' = [inv EXCEPT !.n = Shr(inv.n, 1), !.count = (inv.count + 1) % IntWrap]
    /\ UNCHANGED <<fieldVars, poseidonVars, gridVars>>

\* f >>= k; if (f == 1) return inverse_2exp(k);
InvStrip ==
    /\ inv.pc = "tz" /\ inv.ret = "strip" /\ IsOdd(inv.n)
    /\ LET f1 == Shr(inv.f, inv.count)
       IN  inv' = IF f1 = One
                  THEN [inv EXCEPT !.k = inv.count, !.f = f1, !.pc = "done",
                                   !.res = inverse_2exp(inv.count)]
                  ELSE [inv EXCEPT !.k = inv.count, !.f = f1, !.pc = "safe",
                                   !.stage = 1]
    /\ UNCHANGED <<fieldVars, poseidonVars, gridVars>>

\* the frame after a step that wrote c and d: a value outside i128 is
\* undefined behaviour and ends the run at "ub"
Checked(fr) == IF InI128(fr.c) /\ InI128(fr.d) THEN fr ELSE [fr EXCEPT !.pc = "ub"]

\* safe_iteration up to its call of trailing_zeros
SafeIterationHead ==
    /\ inv.pc = "safe"
    /\ LET sw   == Less(inv.f, inv.g)
           f1   == IF sw THEN inv.g ELSE inv.f
           g1   == IF sw THEN inv.f ELSE inv.g
           c1   == IF sw THEN inv.d ELSE inv.c
           d1   == IF sw THEN inv.c ELSE inv.d
           same == Wrap(f1, 2) = Wrap(g1, 2)
           f2   == IF same THEN WrapSub64(f1, g1)
                   ELSE Wrap(Add(Add(Shr(f1, 2), Shr(g1, 2)), One), 64)
           c2   == IF same THEN SSub(c1, d1) ELSE SAdd(c1, d1)
       IN  inv' = Checked([inv EXCEPT !.f = f2, !.g = g1, !.c = c2, !.d = d1,
                                      !.n = f2, !.count = 0, !.pc = "tz",
                                      !.ret = IF same THEN "safe_sub" ELSE "safe_add"])
    /\ UNCHANGED <<fieldVars, poseidonVars, gridVars>>

\* safe_iteration after trailing_zeros: f >>= kk; d <<= kk (+2); k += kk (+2)
SafeIterationTail ==
    /\ inv.pc = "tz" /\ inv.ret \in {"safe_sub", "safe_add"} /\ IsOdd(inv.n)
    /\ LET kk == inv.count
           sh == IF inv.ret = "safe_sub" THEN kk ELSE kk + 2
       IN  inv' = Checked([inv EXCEPT !.f = Shr(inv.f, kk), !.d = SShl(inv.d, sh),
                                      !.k = inv.k + sh,
                                      !.pc = IF inv.stage = 1 THEN "check" ELSE "loop"])
    /\ UNCHANGED <<fieldVars, poseidonVars, gridVars>>

\* after iteration 1: the early return on f == 1, with assert(c == 1)
InvEarlyReturn ==
    /\ inv.pc = "check"
    /\ inv' = IF inv.f # One THEN [inv EXCEPT !.pc = "safe", !.stage = 2]
              ELSE IF inv.c = SNeg(SOne)
                   THEN [inv EXCEPT !.pc = "done", !.res = op_neg(inverse_2exp(inv.k))]
              ELSE IF inv.c = SOne
                   THEN [inv EXCEPT !.pc = "done", !.res = inverse_2exp(inv.k)]
              ELSE [inv EXCEPT !.pc = "abort"]
    /\ UNCHANGED <<fieldVars, poseidonVars, gridVars>>

\* unsafe_iteration up to its call of trailing_zeros (while (f != 1))
UnsafeIterationHead ==
    /\ inv.pc = "loop" /\ inv.f # One
    /\ LET sw   == Less(inv.f, inv.g)
           f1   == IF sw THEN inv.g ELSE inv.f
           g1   == IF sw THEN inv.f ELSE inv.g
           c1   == IF sw THEN inv.d ELSE inv.c
           d1   == IF sw THEN inv.c ELSE inv.d
           same == Wrap(f1, 2) = Wrap(g1, 2)
           f2   == IF same THEN WrapSub64(f1, g1) ELSE Wrap(Add(f1, g1), 64)
           c2   == IF same THEN SSub(c1, d1) ELSE SAdd(c1, d1)
       IN  inv' = Checked([inv EXCEPT !.f = f2, !.g = g1, !.c = c2, !.d = d1,
                                      !.n = f2, !.count = 0, !.pc = "tz",
                                      !.ret = "unsafe"])
    /\ UNCHANGED <<fieldVars, poseidonVars, gridVars>>

\* unsafe_iteration after trailing_zeros: f >>= kk; d <<= kk; k += kk
UnsafeIterationTail ==
    /\ inv.pc = "tz" /\ inv.ret = "unsafe" /\ IsOdd(inv.n)
    /\ inv' = Checked([inv EXCEPT !.f = Shr(inv.f, inv.count),
                                  !.d = SShl(inv.d, inv.count),
                                  !.k = inv.k + inv.count, !.pc = "loop"])
    /\ UNCHANGED <<fieldVars, poseidonVars, gridVars>>

\* while (c < 0) c += ORDER; the loop is entered when f == 1
CanonAdd ==
    /\ inv.pc = "loop" /\ inv.f = One
    /\ inv.c.neg
    /\ inv' = [inv EXCEPT !.c = SAdd(inv.c, SInt(FALSE, ORDER)), !.adds = inv.adds + 1]
    /\ UNCHANGED <<fieldVars, poseidonVars, gridVars>>

\* while (c >= ORDER) c -= ORDER;
CanonSub ==
    /\ inv.pc = "loop" /\ inv.f = One
    /\ ~inv.c.neg /\ Leq(ORDER, inv.c.mag)
    /\ inv' = [inv EXCEPT !.c = SSub(inv.c, SInt(FALSE, ORDER)), !.subs = inv.subs + 1]
    /\ UNCHANGED <<fieldVars, poseidonVars, gridVars>>

\* res = from_canonical_u64(u64(c)) * inverse_2exp(u64(k)); return res;
InvFinish ==
    /\ inv.pc = "loop" /\ inv.f = One
    /\ ~inv.c.neg /\ Less(inv.c.mag, ORDER)
    /\ inv' = [inv EXCEPT !.pc = "done",
                          !.res = field_mul(SToU64(inv.c), inverse_2exp(inv.k))]
    /\ UNCHANGED <<fieldVars, poseidonVars, gridVars>>

NextInverse ==
    \/ InvBegin
    \/ TrailingZerosStep
    \/ InvStrip
    \/ SafeIterationHead
    \/ SafeIterationTail
    \/ InvEarlyReturn
    \/ UnsafeIterationHead
    \/ UnsafeIterationTail
    \/ CanonAdd
    \/ CanonSub
    \/ InvFinish

SpecInverse == InitInverse /\ [][NextInverse]_vars

\* a lane keeps executing its instruction stream
FairSpecInverse == SpecInverse /\ WF_vars(NextInverse)

----------------------------------------------------------------------------
(* GoldilocksField::inverse_2exp, one step per iteration of its loop. *)

InitInverse2Exp ==
    /\ FieldIdle
    /\ PoseidonIdle
    /\ GridIdle
    /\ \E exp \in 0..MaxExp :
          inv = [pc |-> "inverse_2exp", exp |-> exp, res |-> Zero, e |-> 0, ret |-> Zero]

\* if (exp > TWO_ADICITY) { res = inverse_2_pow_adicity; e = exp - TWO_ADICITY; ... }
\* else return from_canonical_u64(p - ((p - 1) >> exp))
Inv2ExpBegin ==
    /\ inv.pc = "inverse_2exp"
    /\ IF inv.exp > TWO_ADICITY
       THEN inv' = [inv EXCEPT
                      !.pc = "while",
                      !.res = from_canonical_u64(
                                  Sub(ORDER, Shr(Sub(ORDER, One), TWO_ADICITY))),
                      !.e = inv.exp - TWO_ADICITY]
       ELSE inv' = [inv EXCEPT
                      !.pc = "returned",
                      !.ret = from_canonical_u64(Sub(ORDER, Shr(Sub(ORDER, One), inv.exp)))]
    /\ UNCHANGED <<fieldVars, poseidonVars, gridVars>>

\* while (e > TWO_ADICITY) { res *= inverse_2_pow_adicity; e -= TWO_ADICITY; }
Inv2ExpLoop ==
    /\ inv.pc = "while"
    /\ inv.e > TWO_ADICITY
    /\ inv' = [inv EXCEPT
                 !.res = field_mul(inv.res,
                                   from_canonical_u64(
                                       Sub(ORDER, Shr(Sub(ORDER, One), TWO_ADICITY)))),
                 !.e = inv.e - TWO_ADICITY]
    /\ UNCHANGED <<fieldVars, poseidonVars, gridVars>>

\* the return after the loop, without the factor for the rest of the exponent
Inv2ExpReturnNoLastFactor ==
    /\ inv.pc = "while"
    /\ inv.e <= TWO_ADICITY
    /\ inv' = [inv EXCEPT !.pc = "returned", !.ret = inv.res]
    /\ UNCHANGED <<fieldVars, poseidonVars, gridVars>>

\* return res * from_canonical_u64(p - ((p - 1) >> e))
Inv2ExpReturn ==
    /\ inv.pc = "while"
    /\ inv.e <= TWO_ADICITY
    /\ inv' = [inv EXCEPT
                 !.pc = "returned",
                 !.ret = field_mul(inv.res,
                                   from_canonical_u64(
                                       Sub(ORDER, Shr(Sub(ORDER, One), inv.e))))]
    /\ UNCHANGED <<fieldVars, poseidonVars, gridVars>>

NextInverse2Exp == Inv2ExpBegin \/ Inv2ExpLoop \/ Inv2ExpReturn

SpecInverse2Exp == InitInverse2Exp /\ [][NextInverse2Exp]_vars

\* the lane keeps executing
FairSpecInverse2Exp == SpecInverse2Exp /\ WF_vars(NextInverse2Exp)

----------------------------------------------------------------------------
(* PoseidonHasher::hash_n_to_m_no_pad and the call of permute_poseidon it  *)
(* makes, one step per loop iteration.  hash is the frame of the hash call *)
(* (state is its local array, which permute_poseidon updates through the   *)
(* pointer), perm the frame of the running permute_poseidon call.          *)

\* constexpr int len = 4
len == 4

\* the configurations: every SPONGE_RATE with the shortest rounds, every
\* small round count with SPONGE_RATE 4, and the parameters of plonky2
PoseidonConfigs ==
    {[SPONGE_RATE |-> rate, HALF_N_FULL_ROUNDS |-> 1, N_PARTIAL_ROUNDS |-> 1,
      N_ROUNDS |-> 3, tables |-> 1] : rate \in 1..SPONGE_WIDTH}
    \cup {[SPONGE_RATE |-> 4, HALF_N_FULL_ROUNDS |-> h, N_PARTIAL_ROUNDS |-> p,
           N_ROUNDS |-> 2 * h + p + slack, tables |-> 2] :
             h \in 1..MaxHalf, p \in 1..MaxPartial, slack \in {0, 1}}
    \cup {[SPONGE_RATE |-> 8, HALF_N_FULL_ROUNDS |-> 4, N_PARTIAL_ROUNDS |-> 22,
           N_ROUNDS |-> 30, tables |-> 1]}

\* the 4 elements the caller passes
HashInputs == {<<One, Small(2), Small(3), Small(4)>>,
               <<UINT64_MAX, ORDER, EPSILON, <<52719, 35243, 17767, 291>>>>}

\* what the memory behind the 4 elements may hold
JunkWords == {Zero, <<65534, 65535, 65535, 65535>>}

InitPoseidon ==
    /\ FieldIdle
    /\ InverseIdle
    /\ GridIdle
    /\ cfg \in PoseidonConfigs
    /\ \E input \in HashInputs :
          hash = [HashIdle EXCEPT !.pc = "loop", !.input = input]
    /\ perm = PermIdle

\* for (i = 0; i < len; ...) { for (j < SPONGE_RATE) state[j] = input[i*SPONGE_RATE+j];
\* followed by the call permute_poseidon(state), which starts with round_ctr = 0
HashAbsorb ==
    /\ hash.pc = "loop"
    /\ hash.i < len
    /\ \E junk \in JunkWords :
          LET at(j) == hash.i * cfg.SPONGE_RATE + j
              word(j) == IF at(j) < len THEN hash.input[at(j) + 1] ELSE junk
              filled == Stored([k \in 1..SPONGE_WIDTH |->
                                   IF k - 1 < cfg.SPONGE_RATE THEN word(k - 1)
                                   ELSE hash.state[k]])
          IN  hash' = [hash EXCEPT
                         !.pc = "permute",
                         !.state = filled,
                         !.reads = @ \cup {at(j) : j \in 0..(cfg.SPONGE_RATE - 1)},
                         !.calls = @ + 1,
                         !.at_call = IF hash.calls = 0 THEN filled ELSE @]
    /\ perm' = [PermIdle EXCEPT !.pc = "full_rounds", !.block = 1]
    /\ UNCHANGED <<fieldVars, invVars, gridVars, cfg>>

\* full_rounds without its "round_ctr += 1"
FullRoundSameRow ==
    /\ perm.pc = "full_rounds"
    /\ perm.r < cfg.HALF_N_FULL_ROUNDS
    /\ hash' = [hash EXCEPT !.state = full_round(hash.state, cfg.tables, perm.round_ctr)]
    /\ perm' = [perm EXCEPT !.r = @ + 1,
                            !.rounds = Append(@, "full"),
                            !.consts = Append(@, constant_layer_reads(perm.round_ctr))]
    /\ UNCHANGED <<fieldVars, invVars, gridVars, cfg>>

\* full_rounds: one iteration of its loop; perm.consts records what its
\* constant_layer reads
FullRound ==
    /\ perm.pc = "full_rounds"
    /\ perm.r < cfg.HALF_N_FULL_ROUNDS
    /\ hash' = [hash EXCEPT !.state = full_round(hash.state, cfg.tables, perm.round_ctr)]
    /\ perm' = [perm EXCEPT !.round_ctr = @ + 1, !.r = @ + 1,
                            !.rounds = Append(@, "full"),
                            !.consts = Append(@, constant_layer_reads(perm.round_ctr))]
    /\ UNCHANGED <<fieldVars, invVars, gridVars, cfg>>

\* full_rounds returns: to partial_rounds() after the first call, to the
\* assertion after the second
FullRoundsReturn ==
    /\ perm.pc = "full_rounds"
    /\ perm.r >= cfg.HALF_N_FULL_ROUNDS
    /\ perm' = [perm EXCEPT !.pc = IF perm.block = 1 THEN "partial_rounds" ELSE "assert"]
    /\ UNCHANGED <<fieldVars, invVars, gridVars, cfg, hash>>

\* partial_rounds: partial_first_constant_layer(); mds_partial_layer_init();
PartialRoundsBegin ==
    /\ perm.pc = "partial_rounds"
    /\ hash' = [hash EXCEPT
                  !.state = partial_rounds_begin(hash.state, cfg.tables)]
    /\ perm' = [perm EXCEPT !.pc = "partial_loop", !.i = 0]
    /\ UNCHANGED <<fieldVars, invVars, gridVars, cfg>>

\* partial_rounds: one iteration of its loop
PartialRound ==
    /\ perm.pc = "partial_loop"
    /\ perm.i < cfg.N_PARTIAL_ROUNDS
    /\ hash' = [hash EXCEPT !.state = partial_round(hash.state, cfg.tables, perm.i)]
    /\ perm' = [perm EXCEPT !.i = @ + 1, !.rounds = Append(@, "partial")]
    /\ UNCHANGED <<fieldVars, invVars, gridVars, cfg>>

\* partial_rounds without its "round_ctr += N_PARTIAL_ROUNDS"
PartialRoundsReturnNoCount ==
    /\ perm.pc = "partial_loop"
    /\ perm.i >= cfg.N_PARTIAL_ROUNDS
    /\ perm' = [perm EXCEPT !.pc = "full_rounds", !.block = 2, !.r = 0]
    /\ UNCHANGED <<fieldVars, invVars, gridVars, cfg, hash>>

\* partial_rounds leaves its loop: round_ctr += N_PARTIAL_ROUNDS, then the
\* second full_rounds() starts
PartialRoundsReturn ==
    /\ perm.pc = "partial_loop"
    /\ perm.i >= cfg.N_PARTIAL_ROUNDS
    /\ perm' = [perm EXCEPT !.round_ctr = @ + cfg.N_PARTIAL_ROUNDS,
                            !.pc = "full_rounds", !.block = 2, !.r = 0]
    /\ UNCHANGED <<fieldVars, invVars, gridVars, cfg, hash>>

\* assert(round_ctr == N_ROUNDS), then the return to the hash loop
PermuteAssert ==
    /\ perm.pc = "assert"
    /\ IF perm.round_ctr = cfg.N_ROUNDS
       THEN /\ perm' = [perm EXCEPT !.pc = "returned"]
            /\ hash' = [hash EXCEPT !.pc = "next",
                                    !.first_out = IF hash.calls = 1 THEN hash.state ELSE @]
       ELSE /\ perm' = [perm EXCEPT !.pc = "abort"]
            /\ hash' = [hash EXCEPT !.pc = "abort"]
    /\ UNCHANGED <<fieldVars, invVars, gridVars, cfg>>

\* i += SPONGE_RATE
HashNext ==
    /\ hash.pc = "next"
    /\ hash' = [hash EXCEPT !.pc = "loop", !.i = @ + cfg.SPONGE_RATE]
    /\ UNCHANGED <<fieldVars, invVars, gridVars, cfg, perm>>

\* return *(HashOut*)state: the first 4 elements
HashReturn ==
    /\ hash.pc = "loop"
    /\ hash.i >= len
    /\ hash' = [hash EXCEPT !.pc = "done", !.ret = SubSeq(hash.state, 1, 4)]
    /\ UNCHANGED <<fieldVars, invVars, gridVars, cfg, perm>>

NextPoseidon ==
    \/ HashAbsorb
    \/ FullRound
    \/ FullRoundsReturn
    \/ PartialRoundsBegin
    \/ PartialRound
    \/ PartialRoundsReturn
    \/ PermuteAssert
    \/ HashNext
    \/ HashReturn

SpecPoseidon == InitPoseidon /\ [][NextPoseidon]_vars

----------------------------------------------------------------------------
(* The lanes of one kernel launch.  get_global_id and get_global_thcnt are *)
(* computed in 32-bit unsigned arithmetic and returned as int.  The loop   *)
(* that hands jobs to lanes is not part of the sources; it is taken from   *)
(* the specification: lane i takes jobs i, i + lane_count, ... below M.    *)

\* the int holding the bits of a 32-bit unsigned word
ToInt(x) ==
    IF Limb(x, 2) >= 32768 THEN (Limb(x, 2) - Base) * Base + Limb(x, 1)
    ELSE Limb(x, 2) * Base + Limb(x, 1)

get_global_id(threadIdx, blockIdx, blockDim) ==
    ToInt(Wrap(Add(Small(threadIdx), Mul(Small(blockIdx), Small(blockDim))), 32))

get_global_thcnt(gridDim, blockDim) ==
    ToInt(Wrap(Mul(Small(gridDim), Small(blockDim)), 32))

\* launches of at most MaxLanes lanes, all of them running
SmallLaunches ==
    UNION {{[gridDim |-> g, blockDim |-> b, blocks |-> 0..(g - 1), threads |-> 0..(b - 1)] :
               b \in 1..(MaxLanes \div g)} : g \in 1..MaxLanes}

\* launches at the limits of the hardware (gridDim.x < 2^31, blockDim.x <= 1024);
\* of their lanes, those of the first and last block and thread are followed
LargeLaunches ==
    {[gridDim |-> g, blockDim |-> 1024, blocks |-> {0, g - 1}, threads |-> {0, 1023}] :
        g \in {2^21 - 1, 2^21, 2^22, 2^22 + 1}}

Lanes(l) == l.blocks \X l.threads

InitGrid ==
    /\ FieldIdle
    /\ InverseIdle
    /\ PoseidonIdle
    /\ \E l \in SmallLaunches \cup LargeLaunches, M \in 0..MaxJobs :
          grid = [launch |-> l, M |-> M,
                  lane |-> [t \in Lanes(l) |-> [pc |-> "start", gid |-> 0, thcnt |-> 0, j |-> 0]],
                  taken |-> {}]

\* the lane reads its index and the lane count
LaneStart(t) ==
    /\ grid.lane[t].pc = "start"
    /\ LET gid == get_global_id(t[2], t[1], grid.launch.blockDim)
           cnt == get_global_thcnt(grid.launch.gridDim, grid.launch.blockDim)
       IN  grid' = [grid EXCEPT !.lane[t] = [pc |-> "loop", gid |-> gid, thcnt |-> cnt, j |-> gid]]
    /\ UNCHANGED <<fieldVars, invVars, poseidonVars>>

\* the lane takes job j and moves on by the lane count; a sum that leaves the
\* range of int ends the lane at "ub", a second turn on the same job at "spin"
LaneJob(t) ==
    /\ grid.lane[t].pc = "loop"
    /\ grid.lane[t].j < grid.M
    /\ LET j == grid.lane[t].j
           cnt == grid.lane[t].thcnt
           fits == IF cnt >= 0 THEN j <= 2147483647 - cnt ELSE j >= (-2147483647 - 1) - cnt
       IN  grid' = [grid EXCEPT
                      !.taken = @ \cup {<<j, t>>},
                      !.lane[t].pc = IF ~fits THEN "ub" ELSE IF cnt = 0 THEN "spin" ELSE @,
                      !.lane[t].j = IF fits THEN j + cnt ELSE @]
    /\ UNCHANGED <<fieldVars, invVars, poseidonVars>>

\* no job is left for the lane
LaneExit(t) ==
    /\ grid.lane[t].pc = "loop"
    /\ grid.lane[t].j >= grid.M
    /\ grid' = [grid EXCEPT !.lane[t].pc = "done"]
    /\ UNCHANGED <<fieldVars, invVars, poseidonVars>>

NextGrid ==
    \/ \E t \in DOMAIN grid.lane : LaneStart(t)
    \/ \E t \in DOMAIN grid.lane : LaneJob(t)
    \/ \E t \in DOMAIN grid.lane : LaneExit(t)

SpecGrid == InitGrid /\ [][NextGrid]_vars

----------------------------------------------------------------------------
(* One call of mds_layer on a state. *)

\* the table sets the layer is run with
MdsTables == 1..4

\* states of one repeated value, of one value among zeros, and of values
\* that differ from element to element
MdsStates ==
    {Stored([i \in 1..SPONGE_WIDTH |-> w]) : w \in Words}
    \cup {Stored([i \in 1..SPONGE_WIDTH |-> IF i = k THEN UINT64_MAX ELSE Zero]) :
             k \in 1..SPONGE_WIDTH}
    \cup {Stored([i \in 1..SPONGE_WIDTH |-> WrapSub64(w, MulRow(Small(i), 4099))]) :
             w \in {Zero, ORDER}}

InitMds ==
    /\ FieldIdle
    /\ InverseIdle
    /\ GridIdle
    /\ perm = PermIdle
    /\ \E t \in MdsTables : cfg = [CfgNone EXCEPT !.tables = t]
    /\ \E state \in MdsStates :
          hash = [pc |-> "mds_layer", state |-> state, old |-> state, sums |-> <<>>]

\* mds_layer(); sums are the values mds_row_shf returned
MdsLayer ==
    /\ hash.pc = "mds_layer"
    /\ hash' = [pc |-> "mds_done",
                state |-> mds_layer(hash.state, cfg.tables),
                old |-> hash.state,
                sums |-> Stored([r \in 1..SPONGE_WIDTH |->
                                    mds_row_shf(r - 1, hash.state, cfg.tables)])]
    /\ UNCHANGED <<fieldVars, invVars, gridVars, cfg, perm>>

NextMds == MdsLayer

SpecMds == InitMds /\ [][NextMds]_vars

----------------------------------------------------------------------------
(* A batch of M hash jobs: job j is the 4 elements at input + 4 * j, its   *)
(* digest goes to slot j of the output.  As above, the loop over the jobs  *)
(* is taken from the specification; each job is one call of                *)
(* hash_n_to_m_no_pad.                                                     *)

\* the configuration the batch is hashed with
BatchConfig ==
    [SPONGE_RATE |-> 4, HALF_N_FULL_ROUNDS |-> 1, N_PARTIAL_ROUNDS |-> 1, N_ROUNDS |-> 3,
     tables |-> 1]

\* element k of the input, canonical or not
BatchWord(k) == IF k % 3 = 0 THEN WrapSub64(Zero, Small(k)) ELSE Small(k)

\* what input + 4 * j points at: the 4 elements of job j and what follows them
JobInput(j) == Stored([i \in 1..SPONGE_WIDTH |-> BatchWord(4 * j + i)])

\* the digest of job j
JobDigest(j) == hash_n_to_m_no_pad(JobInput(j), cfg).elements

\* batches of M jobs hashed by 1 to M lanes, every lane followed to its end
SmallBatches ==
    {[M |-> Small(s[1]), gridDim |-> s[2], blockDim |-> s[3], blocks |-> 0..(s[2] - 1),
      threads |-> 0..(s[3] - 1), slots |-> 0..(s[1] - 1), follow |-> s[1]] :
        s \in {<<1, 1, 1>>, <<2, 1, 1>>, <<2, 1, 2>>, <<3, 1, 1>>, <<3, 2, 1>>, <<3, 1, 3>>}}

\* a batch of 2^32 + 1024 jobs hashed by as many lanes; thread 0 of the first
\* and of the last block are followed, each for its first job
LargeBatches ==
    {[M |-> Add(Shl(One, 32), Small(1024)), gridDim |-> 2^22 + 1, blockDim |-> 1024,
      blocks |-> {0, 2^22}, threads |-> {0}, slots |-> {0}, follow |-> 1]}

InitBatch ==
    /\ FieldIdle
    /\ InverseIdle
    /\ cfg = BatchConfig
    /\ hash = HashIdle
    /\ perm = PermIdle
    /\ \E s \in SmallBatches \cup LargeBatches :
          grid = [launch |-> s, M |-> s.M,
                  lane |-> [t \in Lanes(s) |->
                               [pc |-> "start", gid |-> 0, thcnt |-> 0, j |-> 0]],
                  taken |-> {},
                  output |-> [j \in s.slots |-> <<>>],
                  serial |-> [j \in s.slots |->
                                 hash_n_to_m_no_pad(JobInput(j), BatchConfig).elements]]

\* job j is one of the batch
InBatch(j) == j >= 0 /\ Less(Small(j), grid.M)

\* the lane hashes job j, stores the digest in slot j and moves on by the
\* lane count
LaneHash(t) ==
    /\ grid.lane[t].pc = "loop"
    /\ InBatch(grid.lane[t].j)
    /\ Cardinality({x \in grid.taken : x[2] = t}) < grid.launch.follow
    /\ LET j == grid.lane[t].j
           cnt == grid.lane[t].thcnt
           fits == IF cnt >= 0 THEN j <= 2147483647 - cnt ELSE j >= (-2147483647 - 1) - cnt
       IN  grid' = [grid EXCEPT
                      !.taken = @ \cup {<<j, t>>},
                      !.output[j] = JobDigest(j),
                      !.lane[t].pc = IF ~fits THEN "ub" ELSE IF cnt = 0 THEN "spin" ELSE @,
                      !.lane[t].j = IF fits THEN j + cnt ELSE @]
    /\ UNCHANGED <<fieldVars, invVars, poseidonVars>>

\* no job of the batch is left for the lane
LaneHashExit(t) ==
    /\ grid.lane[t].pc = "loop"
    /\ ~InBatch(grid.lane[t].j)
    /\ grid' = [grid EXCEPT !.lane[t].pc = "done"]
    /\ UNCHANGED <<fieldVars, invVars, poseidonVars>>

NextBatch ==
    \/ \E t \in DOMAIN grid.lane : LaneStart(t)
    \/ \E t \in DOMAIN grid.lane : LaneHash(t)
    \/ \E t \in DOMAIN grid.lane : LaneHashExit(t)

SpecBatch == InitBatch /\ [][NextBatch]_vars

----------------------------------------------------------------------------
(* Claims about the field operations (checked under SpecField). *)

\* C2: for every stored value a, a + (-a) reduces to canonical 0, i.e. the
\* value returned by unary operator- is congruent to -a modulo ORDER.
C2_NegateIsAdditiveInverse ==
    op = "neg" => ModP(op_add(lhs, out.data).data) = Zero

\* C3: for every pair of stored values, operator+ passes its double-overflow
\* assertion, its final "+= EPSILON" stays below 2^64, and the returned
\* value is congruent to a + b modulo ORDER.
C3_AddCorrect ==
    op = "add" => /\ out.assert_ok
                  /\ ~out.wrapped
                  /\ Congruent(out.data, Add(lhs, rhs))

\* the double-overflow branch of operator+ is taken
C3_Witness == op = "add" /\ out.over /\ out.double

C5_Reduce128Correct ==
    op = "reduce128" => /\ ~out.underflow
                        /\ ~out.wrapped
                        /\ Congruent(out.data, Add(Shl(lhs, 64), rhs))

\* both corrections of reduce128 are taken in one call
C5_Witness == op = "reduce128" /\ out.borrow /\ out.carry

\* C6: the (high, low) pair of operator* is the exact product a * b, no
\* carry is lost in "carry" or in "high", and the returned element is
\* congruent to a * b modulo ORDER.
C6_MulExact ==
    op = "mul" => /\ out.fits
                  /\ Add(Shl(out.high, 64), out.low) = Mul(lhs, rhs)
                  /\ Congruent(out.data, Mul(lhs, rhs))

\* a product whose middle column carries into high
C6_Witness == op = "mul" /\ Shr(out.carry, 32) # Zero /\ Shr(out.high, 32) # Zero

\* C12: operator== returns true exactly when the two stored values have the
\* same residue modulo p, so that p == 0 is true; and (a + b) == 0 is true
\* exactly when a + b is a multiple of p, so that (p - 1) + 1 == 0 is true.
C12_EqualsComparesResidues ==
    /\ op = "eq" => (out.equal <=> Congruent(lhs, rhs))
    /\ op = "sum_eq_zero" => (out.equal <=> Congruent(Add(lhs, rhs), Zero))

----------------------------------------------------------------------------
(* Claims about inverse (checked under SpecInverse and FairSpecInverse). *)

\* C1: for every stored value a with non-zero residue modulo ORDER, the
\* value b returned by inverse(a) satisfies a * b = 1 modulo ORDER, on the
\* early-return paths too.
C1_InverseCorrect ==
    (inv.pc = "done" /\ ModP(inv.a) # Zero) => ModP(Mul(inv.a, inv.res)) = One

\* C7: a call of inverse on an element congruent to 0 (stored 0 or ORDER)
\* ends in a failed assertion; it neither returns nor runs forever.
C7_ZeroInputAborts ==
    (inv.pc = "start" /\ ModP(inv.a) = Zero) ~> (inv.pc = "abort")

\* C15: in a call of inverse on a value of non-zero residue, c and d stay
\* within the range of i128; when the main loop is left c is at least
\* -2 * ORDER and below 2 * ORDER, so that "c += ORDER" runs at most twice
\* and "c -= ORDER" at most once.
C15_CanonicalizationBounded ==
    ModP(inv.a) # Zero =>
        /\ inv.pc # "ub"
        /\ inv.adds <= 2
        /\ inv.subs <= 1
        /\ (inv.pc = "loop" /\ inv.f = One /\ inv.adds = 0 /\ inv.subs = 0) =>
               /\ inv.c.neg => Leq(inv.c.mag, Add(ORDER, ORDER))
               /\ ~inv.c.neg => Less(inv.c.mag, Add(ORDER, ORDER))

----------------------------------------------------------------------------
(* Claims about inverse_2exp (checked under FairSpecInverse2Exp). *)

\* C14: every call inverse_2exp(exp) returns, and the value it returns
\* times 2^exp is congruent to 1 modulo ORDER; the value is the one the
\* calls made by inverse get.
C14_Inverse2ExpCorrect ==
    /\ <>(inv.pc = "returned")
    /\ [](inv.pc = "returned" =>
             /\ Congruent(Shl(inv.ret, inv.exp), One)
             /\ inv.ret = inverse_2exp(inv.exp))

\* a call with an exponent beyond 3 * 32 has returned
C14_Witness ==
    inv.pc = "returned" /\ inv.exp > 3 * TWO_ADICITY

----------------------------------------------------------------------------
(* Claims about the Poseidon driver (checked under SpecPoseidon). *)

\* C8: whatever SPONGE_RATE is, a finished hash_n_to_m_no_pad has read only
\* input[0..3], has called permute_poseidon exactly once, on the state
\* [input[0], input[1], input[2], input[3], 0, 0, 0, 0, 0, 0, 0, 0], and
\* returns the first 4 elements of the state that call left.
C8_HashPermutesInputOnce ==
    hash.pc = "done" =>
        /\ hash.reads \subseteq 0..(len - 1)
        /\ hash.calls = 1
        /\ hash.at_call = hash.input \o [k \in 1..(SPONGE_WIDTH - len) |-> Zero]
        /\ hash.ret = SubSeq(hash.first_out, 1, len)

\* the rounds of one permutation in their order
RoundsInOrder ==
    [k \in 1..(2 * cfg.HALF_N_FULL_ROUNDS + cfg.N_PARTIAL_ROUNDS) |->
        IF k <= cfg.HALF_N_FULL_ROUNDS
           \/ k > cfg.HALF_N_FULL_ROUNDS + cfg.N_PARTIAL_ROUNDS
        THEN "full" ELSE "partial"]

\* C9: when permute_poseidon reaches its assertion it has run
\* HALF_N_FULL_ROUNDS full rounds, N_PARTIAL_ROUNDS partial rounds and
\* HALF_N_FULL_ROUNDS full rounds, in this order; if N_ROUNDS is
\* 2 * HALF_N_FULL_ROUNDS + N_PARTIAL_ROUNDS the counter then equals
\* N_ROUNDS and the assertion does not fail; within one call no step
\* decreases the counter.
C9_RoundCounter ==
    /\ [](perm.pc \in {"assert", "returned", "abort"} =>
            /\ perm.rounds = RoundsInOrder
            /\ (cfg.N_ROUNDS = 2 * cfg.HALF_N_FULL_ROUNDS + cfg.N_PARTIAL_ROUNDS
                   => perm.round_ctr = cfg.N_ROUNDS /\ perm.pc # "abort"))
    /\ [][hash'.calls = hash.calls => perm'.round_ctr >= perm.round_ctr]_vars

\* a permutation of more than one round of each kind has passed its assertion
C9_Witness ==
    /\ perm.pc = "returned"
    /\ cfg.HALF_N_FULL_ROUNDS > 1
    /\ cfg.N_PARTIAL_ROUNDS > 1
    /\ perm.round_ctr = cfg.N_ROUNDS

\* C16: within one call of permute_poseidon the k-th constant_layer call
\* reads ALL_ROUND_CONSTANTS exactly at the 12 indices of one row, all of
\* them below 12 * N_ROUNDS: row k - 1 in the first block of full rounds
\* and row N_PARTIAL_ROUNDS + k - 1 in the second, so that the second block
\* starts at row HALF_N_FULL_ROUNDS + N_PARTIAL_ROUNDS and, when the
\* assertion passes, ends at row N_ROUNDS - 1; no two calls read the same
\* index; the partial rounds read none.
C16_RoundConstantRows ==
    /\ \A k \in 1..Len(perm.consts) :
          /\ perm.consts[k] =
                 {WIDTH * (IF k <= cfg.HALF_N_FULL_ROUNDS
                           THEN k - 1 ELSE cfg.N_PARTIAL_ROUNDS + k - 1) + i :
                    i \in 0..(WIDTH - 1)}
          /\ perm.consts[k] \subseteq 0..(WIDTH * cfg.N_ROUNDS - 1)
    /\ \A k, m \in 1..Len(perm.consts) :
          k # m => perm.consts[k] \cap perm.consts[m] = {}
    /\ perm.pc \in {"partial_rounds", "partial_loop"} =>
          Len(perm.consts) = cfg.HALF_N_FULL_ROUNDS
    /\ perm.pc \in {"assert", "returned", "abort"} =>
          Len(perm.consts) = 2 * cfg.HALF_N_FULL_ROUNDS
    /\ perm.pc = "returned" =>
          (WIDTH * cfg.N_ROUNDS - 1) \in perm.consts[Len(perm.consts)]

\* a permutation with several rounds in each block has returned, its last
\* full round having read the last row of the table
C16_Witness ==
    /\ perm.pc = "returned"
    /\ Len(perm.consts) > 2
    /\ cfg.N_PARTIAL_ROUNDS > 1
    /\ perm.consts[Len(perm.consts)] =
          {WIDTH * (cfg.N_ROUNDS - 1) + i : i \in 0..(WIDTH - 1)}

----------------------------------------------------------------------------
(* Claims about mds_layer (checked under SpecMds). *)

\* the sum of the entries of MDS_MATRIX_CIRC from index i on
RECURSIVE CircSum(_, _)
CircSum(t, i) ==
    IF i < WIDTH THEN Add(MDS_MATRIX_CIRC(t, i), CircSum(t, i + 1)) ELSE Zero

\* sum_i MDS_MATRIX_CIRC[i] + MDS_MATRIX_DIAG[r] <= 2^32 for each r
MdsEntriesSmall(t) ==
    \A r \in 0..(WIDTH - 1) : Leq(Add(CircSum(t, 0), MDS_MATRIX_DIAG(t, r)), Shl(One, 32))

\* sum_{i >= from} old[(i + r) mod 12] * MDS_MATRIX_CIRC[i], in the integers
RECURSIVE MdsCircTerms(_, _, _, _)
MdsCircTerms(old, t, r, from) ==
    IF from < WIDTH
    THEN Add(Mul(old[((from + r) % WIDTH) + 1], MDS_MATRIX_CIRC(t, from)),
             MdsCircTerms(old, t, r, from + 1))
    ELSE Zero

\* the value of row r in the integers
MdsRow(old, t, r) ==
    Add(MdsCircTerms(old, t, r, 0), Mul(old[r + 1], MDS_MATRIX_DIAG(t, r)))

\* C13: with tables whose entries are small, mds_layer leaves in every
\* element r a value congruent to row r of the matrix applied to the state
\* before the layer, and the accumulator of the row holds that value of the
\* row, which is below 2^96.
C13_MdsLayerCorrect ==
    (hash.pc = "mds_done" /\ MdsEntriesSmall(cfg.tables)) =>
        \A r \in 0..(WIDTH - 1) :
            /\ hash.sums[r + 1] = MdsRow(hash.old, cfg.tables, r)
            /\ Less(hash.sums[r + 1], Shl(One, 96))
            /\ Congruent(hash.state[r + 1], MdsRow(hash.old, cfg.tables, r))

\* the layer has run with small entries on a state whose elements differ
\* from one another, and the accumulator of row 0 has reached 2^95
C13_Witness ==
    /\ hash.pc = "mds_done"
    /\ MdsEntriesSmall(cfg.tables)
    /\ Leq(Shl(One, 95), hash.sums[1])
    /\ \A i, j \in 1..SPONGE_WIDTH : i # j => hash.old[i] # hash.old[j]

----------------------------------------------------------------------------
(* Claims about the lanes (checked under SpecGrid). *)

\* C10: the indices the lanes have read are pairwise distinct and lie in
\* 0 .. get_global_thcnt() - 1; no job is taken by two lanes (nor twice by
\* one) and every job taken is one of 0 .. M-1; when all lanes of a launch
\* have left the loop, every job of 0 .. M-1 has been taken.
C10_DisjointStridedPartition ==
    LET lanes   == DOMAIN grid.lane
        started == {t \in lanes : grid.lane[t].pc # "start"}
        all     == grid.launch \in SmallLaunches
    IN  /\ \A t \in started : grid.lane[t].gid >= 0 /\ grid.lane[t].gid < grid.lane[t].thcnt
        /\ \A s, t \in started : s # t => grid.lane[s].gid # grid.lane[t].gid
        /\ \A x, y \in grid.taken : x[1] = y[1] => x[2] = y[2]
        /\ \A x \in grid.taken : x[1] \in 0..(grid.M - 1)
        /\ \A t \in lanes : grid.lane[t].pc # "spin"
        /\ (all /\ \A t \in lanes : grid.lane[t].pc = "done") =>
               {x[1] : x \in grid.taken} = 0..(grid.M - 1)

----------------------------------------------------------------------------
(* Claims about the batch (checked under SpecBatch). *)

\* C11: a slot of the output is written by one lane only; what is written to
\* slot j is the digest of job j, as hashing the jobs one at a time in order
\* gives it; when all lanes have left the loop the output is the output of
\* hashing the jobs one at a time in order.
C11_BatchEqualsOneAtATime ==
    /\ \A x, y \in grid.taken : x[1] = y[1] => x[2] = y[2]
    /\ \A j \in DOMAIN grid.output :
          grid.output[j] # <<>> =>
              /\ grid.output[j] = grid.serial[j]
              /\ \E x \in grid.taken : x[1] = j
    /\ (\A t \in DOMAIN grid.lane : grid.lane[t].pc = "done") => grid.output = grid.serial

====
